---- MODULE Spec2Model ----
(***************************************************************************)
(* The documentation tool of cmd/doctool: it derives a tree of Nodes from  *)
(* the shape of a configuration value (ParseTree), indexes the registered  *)
(* flags by the address they are bound to (parseFlags), attaches the flags *)
(* to the leaves (WalkConfigTree), prints the tree (PrintConfigTree) and   *)
(* marks the root blocks (ApplyRootBlocks).  A second program of the       *)
(* repository (src/unnamed/part_000) folds the same tree into a document   *)
(* of ConfigBlocks (AnalyzeConfigTree, Apply); its definitions carry the   *)
(* suffix 0 where they differ from those of main.go.                       *)
(*                                                                         *)
(* Strings are TLA+ strings, a strings.Builder is the concatenation of     *)
(* what was written to it.  A reflect.Type is a record with its kind; a    *)
(* reflect.Value is a type with the address of its storage.  Addresses     *)
(* count words: every non-struct field takes one word, a struct the words  *)
(* of its fields.                                                          *)
(***************************************************************************)
EXTENDS Integers, Sequences, FiniteSets, TLC

VARIABLES
    prog,       \* which main() runs: "doctool" (main.go) or "part_000"
    pc,         \* the position of main()
    cfg,        \* the struct type of the configuration value, Config()
    fs,         \* the flags RegisterFlags has put in the flag set, keyed by name
    blocks,     \* the registry, Blocks()
    tree,       \* main.go: tree
    flagByPtr,  \* main.go: flagByPtr, part_000: the flagMap argument of Apply
    printed,    \* what main() has given to fmt.Println
    doc,        \* part_000: out, the *ConfigBlock of Apply
    applied     \* the nodes the per-node function was applied to, in order

vars == <<prog, pc, cfg, fs, blocks, tree, flagByPtr, printed, doc, applied>>

(***************************************************************************)
(* Bounds of the model.                                                    *)
(***************************************************************************)
\* the fields of the configuration (at every depth), the flags and the
\* registry entries of one run, together
MaxInput == 3

(***************************************************************************)
(* reflect.Type                                                            *)
(***************************************************************************)
NilType == [kind |-> "nil"]
IntT == [kind |-> "int"]
Float64T == [kind |-> "float64"]
StringT == [kind |-> "string"]
SliceOf(t) == [kind |-> "slice", elem |-> t]
PtrTo(t) == [kind |-> "ptr", elem |-> t]
StructOf(pkg, name, fields) ==
    [kind |-> "struct", pkg |-> pkg, name |-> name, fields |-> fields]

\* the dynamic type of every non-nil reflect.Type value
RType == PtrTo([kind |-> "struct", pkg |-> "reflect", name |-> "rtype", fields |-> <<>>])

\* reflect.TypeOf(i) of an interface value holding a reflect.Type: the type
\* of what the interface holds, nil for the nil interface
TypeOfType(t) == IF t = NilType THEN NilType ELSE RType

(***************************************************************************)
(* The inputs of a run: the configuration's struct type, the flag set and  *)
(* the registry.  A struct field is named after its position (F1, F2, ..), *)
(* an embedded field after its type (S1, S2, ..), as Go names it: a field  *)
(* promoted from an embedded struct can so have the name of a field of the *)
(* struct that embeds it, and is then not visible.                         *)
(***************************************************************************)
\* the yaml tag and the type of a field that is no struct
LeafShapes ==
    { <<(<<"fieldname">>), IntT>>,
      <<(<<"limits", ",", "omitempty">>), SliceOf(Float64T)>>,
      <<(<<"-">>), IntT>> }

\* the yaml tag of a field that is a struct
StructTags == { <<"server">>, <<"-">>, <<",", "inline">> }

RECURSIVE Bodies(_, _)
\* the struct fields a field at position pos can be, n fields in all
FieldsOfSize(n, pos) ==
    (IF n = 1
       THEN { [Name |-> "F" \o ToString(pos), Tag |-> l[1], Type |-> l[2],
               Anonymous |-> FALSE] : l \in LeafShapes }
       ELSE {})
    \cup
    { [Name |-> (IF x[2] THEN "S" ELSE "F") \o ToString(pos), Tag |-> x[1],
       Type |-> StructOf("pkg", "S" \o ToString(pos), x[3]), Anonymous |-> x[2]] :
         x \in StructTags \X BOOLEAN \X Bodies(n - 1, 1) }

\* the field lists of n fields in all (nested ones counted), from position pos on
Bodies(n, pos) ==
    IF n = 0 THEN { <<>> }
    ELSE UNION { { <<f>> \o rest : f \in FieldsOfSize(k, pos),
                                   rest \in Bodies(n - k, pos + 1) } : k \in 1..n }

ConfigTypes(n) == { StructOf("loki", "Config", b) : b \in Bodies(n, 1) }

\* unsafe.Sizeof, in words
RECURSIVE Sizeof(_)
RECURSIVE SizeofFields(_, _)
SizeofFields(fields, n) ==
    IF n = 0 THEN 0 ELSE SizeofFields(fields, n - 1) + Sizeof(fields[n].Type)
Sizeof(t) ==
    IF t.kind = "struct" THEN SizeofFields(t.fields, Len(t.fields)) ELSE 1

\* the address of the configuration value
BaseAddr == 1

\* the types declared in a struct type, itself included
RECURSIVE TypesIn(_)
TypesIn(t) ==
    {t} \cup (IF t.kind = "struct"
                THEN UNION { TypesIn(t.fields[i].Type) : i \in 1..Len(t.fields) }
                ELSE {})

\* flag names, in the order of sortFlags
FlagNames == <<"max-size", "min-size", "quota", "timeout", "ttl", "zone">>

\* a flag.Flag; Value is the flag.Value: the pointer it is and what its
\* String() returns
FlagsAt(i, config) ==
    { [Name |-> FlagNames[i], Usage |-> "usage of " \o FlagNames[i],
       DefValue |-> "5", Value |-> [ptr |-> a, str |-> s]] :
         a \in BaseAddr..(BaseAddr + Sizeof(config)), s \in {"5", "deprecated"} }

\* the flag sets of n flags, as VisitAll visits them
RECURSIVE FlagSets(_, _)
FlagSets(n, config) ==
    IF n = 0 THEN { <<>> }
    ELSE { Append(f, g) : f \in FlagSets(n - 1, config), g \in FlagsAt(n, config) }

BlockTypes(config) == (TypesIn(config) \ {config}) \cup {NilType, PtrTo(config)}

RECURSIVE Registries(_, _)
Registries(n, config) ==
    IF n = 0 THEN { <<>> }
    ELSE { Append(r, [Name |-> "block" \o ToString(n),
                      Desc |-> "description of block" \o ToString(n),
                      Type |-> t]) :
             r \in Registries(n - 1, config), t \in BlockTypes(config) }

(***************************************************************************)
(* reflect.VisibleFields                                                   *)
(***************************************************************************)
RECURSIVE walk(_, _, _, _)
\* visibleFieldsWalker.walk from field i of t on; w is the walker (fields,
\* byName), index the path to t.  A hidden field is one whose name the
\* walker has set to "".  The struct types here are finite trees, the
\* walker's set of the types it is visiting never stops it.
walk(t, i, index, w) ==
    IF i > Len(t.fields) THEN w
    ELSE LET f == t.fields[i]
             idx == Append(index, i)
             known == f.Name \in DOMAIN w.byName
             old == w.byName[f.Name]
             same == known /\ Len(idx) = Len(w.fields[old].Index)
             shallower == known /\ Len(idx) < Len(w.fields[old].Index)
             add == ~known \/ shallower
             w1 == IF same \/ shallower
                     THEN [w EXCEPT !.fields[old].hidden = TRUE] ELSE w
             w2 == IF add
                     THEN [fields |-> Append(w1.fields,
                               [Name |-> f.Name, Tag |-> f.Tag, Type |-> f.Type,
                                Anonymous |-> f.Anonymous, Index |-> idx,
                                hidden |-> FALSE]),
                           byName |-> (f.Name :> (Len(w1.fields) + 1)) @@ w1.byName]
                     ELSE w1
             w3 == IF f.Anonymous /\ f.Type.kind = "struct"
                     THEN walk(f.Type, 1, idx, w2) ELSE w2
         IN walk(t, i + 1, index, w3)

VisibleFields(t) ==
    SelectSeq(walk(t, 1, <<>>, [fields |-> <<>>, byName |-> <<>>]).fields,
              LAMBDA f : ~f.hidden)

\* reflect.Value: Field(i) of a struct value v, and FieldByIndex
Field(v, i) ==
    [typ |-> v.typ.fields[i].Type,
     addr |-> v.addr + SizeofFields(v.typ.fields, i - 1)]

RECURSIVE FieldByIndex(_, _)
FieldByIndex(v, index) ==
    IF index = <<>> THEN v
    ELSE FieldByIndex(Field(v, Head(index)), Tail(index))

(***************************************************************************)
(* main.go                                                                 *)
(***************************************************************************)
NilFlag == [nil |-> TRUE]

\* a Node with the zero value in every field but these three
Node(name, tags, type) ==
    [Name |-> name, Desc |-> "", Type |-> type, Tag |-> tags, Children |-> <<>>,
     Pointer |-> 0, Flag |-> NilFlag, IsRoot |-> FALSE]

RECURSIVE indent(_)
indent(i) == IF i <= 0 THEN "" ELSE indent(i - 1) \o "  "

RECURSIVE Split(_, _)
\* strings.Split(tag, ","), cur the part being read
Split(tag, cur) ==
    IF tag = <<>> THEN <<cur>>
    ELSE IF Head(tag) = "," THEN <<cur>> \o Split(Tail(tag), "")
    ELSE Split(Tail(tag), cur \o Head(tag))

parseTag(tag) ==
    LET parts == Split(tag, "")
    IN CASE Len(parts) = 0 -> [name |-> "", tags |-> <<>>]
         [] Len(parts) = 1 -> [name |-> parts[1], tags |-> <<>>]
         [] OTHER -> [name |-> parts[1], tags |-> Tail(parts)]

RECURSIVE ParseTree(_, _)
RECURSIVE ParseFields(_, _, _, _)
RECURSIVE ParseFieldsPrepend(_, _, _, _)
\* ParseFields, but a new node is put before the children the node has
ParseFieldsPrepend(t, v, fields, k) ==
    IF k > Len(fields) THEN t
    ELSE LET field == fields[k]
             p == parseTag(field.Tag)
             fieldValue == FieldByIndex(v, field.Index)
             node == Node(p.name, p.tags, field.Type)
         IN IF p.name = "" \/ p.name = "-"
              THEN ParseFieldsPrepend(t, v, fields, k + 1)
              ELSE IF field.Type.kind = "struct"
                THEN ParseFieldsPrepend(
                       [t EXCEPT !.Children = <<ParseTree(node, fieldValue)>> \o @],
                       v, fields, k + 1)
                ELSE ParseFieldsPrepend(
                       [t EXCEPT !.Children =
                            <<[node EXCEPT !.Pointer = fieldValue.addr]>> \o @],
                       v, fields, k + 1)

\* the loop of ParseTree from the k-th visible field on
ParseFields(t, v, fields, k) ==
    IF k > Len(fields) THEN t
    ELSE LET field == fields[k]
             p == parseTag(field.Tag)
             fieldValue == FieldByIndex(v, field.Index)
             node == Node(p.name, p.tags, field.Type)
         IN IF p.name = "" \/ p.name = "-"
              THEN ParseFields(t, v, fields, k + 1)
              ELSE IF field.Type.kind = "struct"
                THEN ParseFields(
                       [t EXCEPT !.Children = Append(@, ParseTree(node, fieldValue))],
                       v, fields, k + 1)
                ELSE ParseFields(
                       [t EXCEPT !.Children =
                            Append(@, [node EXCEPT !.Pointer = fieldValue.addr])],
                       v, fields, k + 1)

ParseTree(t, v) == ParseFields(t, v, VisibleFields(v.typ), 1)

Tree == Node("root", <<>>, NilType)

\* getType of main.go; t is not nil (t.Kind() of a nil Type panics)
RECURSIVE getType(_)
getType(t) ==
    CASE t.kind \in {"int", "int16", "int32", "int64",
                     "uint", "uint16", "uint32", "uint64"} -> "int"
      [] t.kind \in {"float32", "float64"} -> "float"
      [] t.kind = "slice" -> "list[" \o getType(t.elem) \o "]"
      [] t.kind = "struct" -> t.name
      [] t.kind = "ptr" -> "*" \o getType(t.elem)
      [] OTHER -> t.kind

\* fmt.Sprintf("%v", b) of a bool
FormatBool(b) == IF b THEN "true" ELSE "false"

RECURSIVE PrintConfigTree(_, _)
RECURSIVE PrintChildren(_, _, _)
\* the loop of PrintConfigTree over the first n children
PrintChildren(t, i, n) ==
    IF n = 0 THEN ""
    ELSE PrintChildren(t, i, n - 1)
           \o indent(i + 1) \o PrintConfigTree(t.Children[n], i + 1) \o "\n"

PrintConfigTree(t, i) ==
    t.Name
    \o " (" \o FormatBool(t.IsRoot) \o ")"
    \o (IF t.Type # NilType /\ Len(t.Children) = 0
          THEN ": " \o getType(t.Type)
               \o (IF t.Flag # NilFlag
                     THEN " -" \o t.Flag.Name \o "=" \o t.Flag.DefValue
                     ELSE "")
          ELSE "")
    \o (IF Len(t.Children) > 0
          THEN " {\n" \o PrintChildren(t, i, Len(t.Children)) \o indent(i) \o "}"
          ELSE "")

\* the map a flag index is: m[p] of a missing key is the zero value
Lookup(m, p) == IF p \in DOMAIN m THEN m[p] ELSE NilFlag

RECURSIVE VisitFlagsFirstWins(_, _)
\* VisitFlags, but a flag does not replace an earlier one of the same address
VisitFlagsFirstWins(flags, n) ==
    IF n = 0 THEN <<>>
    ELSE LET m == VisitFlagsFirstWins(flags, n - 1)
             f == flags[n]
         IN IF f.Value.str = "deprecated" THEN m
            ELSE m @@ (f.Value.ptr :> f)

RECURSIVE VisitFlags(_, _)
\* parseFlags after VisitAll has visited the first n flags
VisitFlags(flags, n) ==
    IF n = 0 THEN <<>>
    ELSE LET m == VisitFlags(flags, n - 1)
             f == flags[n]
         IN IF f.Value.str = "deprecated" THEN m
            ELSE (f.Value.ptr :> f) @@ m

parseFlags(flags) == VisitFlags(flags, Len(flags))

\* the function literal of main(): attach the flag bound to the node's address
mainFunc(m, t) ==
    [node |-> [t EXCEPT !.Flag = Lookup(m, t.Pointer)], ok |-> TRUE, out |-> <<>>]

RECURSIVE RootBlocksLoop(_, _, _)
\* the function literal of ApplyRootBlocks after the first n blocks; ok is
\* FALSE once getType(t) has panicked on a nil t
RootBlocksLoop(node, registry, n) ==
    IF n = 0 THEN [node |-> node, ok |-> TRUE, out |-> <<>>]
    ELSE LET r == RootBlocksLoop(node, registry, n - 1)
             block == registry[n]
             t == TypeOfType(block.Type)
         IN IF ~r.ok THEN r
            ELSE IF r.node.Type = t
              THEN IF t = NilType
                     THEN [node |-> [r.node EXCEPT !.IsRoot = TRUE, !.Desc = block.Desc],
                           ok |-> FALSE, out |-> r.out]
                     ELSE [node |-> [r.node EXCEPT !.IsRoot = TRUE, !.Desc = block.Desc],
                           ok |-> TRUE,
                           out |-> Append(r.out, "block: " \o r.node.Name \o " "
                                                 \o block.Desc \o " " \o getType(t))]
              ELSE r

ApplyRootBlocksFunc(registry, node) == RootBlocksLoop(node, registry, Len(registry))

\* a value of type Apply: one of the two function literals with what it captures
CallApply(fn, node) ==
    IF fn.lit = "main" THEN mainFunc(fn.flagByPtr, node)
    ELSE ApplyRootBlocksFunc(fn.blocks, node)

RECURSIVE WalkConfigTree(_, _, _)
RECURSIVE WalkChildren(_, _, _, _)
\* the loop of WalkConfigTree over the first n children; path is where t
\* is, calls the nodes fn was called on, in order
WalkChildren(t, fn, path, n) ==
    IF n = 0 THEN [node |-> t, ok |-> TRUE, out |-> <<>>, calls |-> <<>>]
    ELSE LET r == WalkChildren(t, fn, path, n - 1)
             c == WalkConfigTree(r.node.Children[n], fn, Append(path, n))
         IN IF ~r.ok THEN r
            ELSE [node |-> [r.node EXCEPT !.Children[n] = c.node], ok |-> c.ok,
                  out |-> r.out \o c.out, calls |-> r.calls \o c.calls]

\* WalkConfigTree, but fn is called on the node before its children are walked
WalkConfigTreeParentFirst(t, fn, path) ==
    LET a == CallApply(fn, t)
        r == WalkChildren(a.node, fn, path, Len(t.Children))
    IN IF ~a.ok THEN [node |-> a.node, ok |-> FALSE, out |-> a.out, calls |-> <<path>>]
       ELSE [node |-> r.node, ok |-> r.ok, out |-> a.out \o r.out,
             calls |-> <<path>> \o r.calls]

WalkConfigTree(t, fn, path) ==
    LET r == WalkChildren(t, fn, path, Len(t.Children))
        a == CallApply(fn, r.node)
    IN IF ~r.ok THEN r
       ELSE [node |-> a.node, ok |-> a.ok, out |-> r.out \o a.out,
             calls |-> Append(r.calls, path)]

ApplyRootBlocks(t, registry) ==
    WalkConfigTree(t, [lit |-> "ApplyRootBlocks", blocks |-> registry], <<>>)

(***************************************************************************)
(* src/unnamed/part_000, where it differs from main.go                     *)
(***************************************************************************)
\* getType with the nil case and the qualified struct name
RECURSIVE getType0(_)
getType0(t) ==
    CASE t = NilType -> "-"
      [] t.kind \in {"int", "int16", "int32", "int64",
                     "uint", "uint16", "uint32", "uint64"} -> "int"
      [] t.kind \in {"float32", "float64"} -> "float"
      [] t.kind = "slice" -> "list[" \o getType0(t.elem) \o "]"
      [] t.kind = "struct" -> t.pkg \o "." \o t.name
      [] t.kind = "ptr" -> "*" \o getType0(t.elem)
      [] OTHER -> t.kind

RECURSIVE PrintConfigTree0(_, _)
RECURSIVE PrintChildren0(_, _, _)
PrintChildren0(t, i, n) ==
    IF n = 0 THEN ""
    ELSE PrintChildren0(t, i, n - 1)
           \o indent(i + 1) \o PrintConfigTree0(t.Children[n], i + 1) \o "\n"

PrintConfigTree0(t, i) ==
    t.Name
    \o (IF t.Type # NilType /\ Len(t.Children) = 0
          THEN ": " \o getType0(t.Type)
               \o (IF t.Flag # NilFlag
                     THEN " -" \o t.Flag.Name \o "=" \o t.Flag.DefValue
                     ELSE "")
          ELSE "")
    \o (IF Len(t.Children) > 0
          THEN " {\n" \o PrintChildren0(t, i, Len(t.Children)) \o indent(i) \o "}"
          ELSE "")

\* Tree(cfg), but with the type left out as in Tree() of main.go
Tree0Untyped(config) == Node("root", <<>>, NilType)

\* Tree(cfg): config is the struct type cfg points to
Tree0(config) == Node("root", <<>>, PtrTo(config))

RECURSIVE blockForNode(_, _, _)
\* blockForNode from the k-th block on: the first block of the node's type
blockForNode(n, registry, k) ==
    IF k > Len(registry) THEN [ok |-> FALSE]
    ELSE IF n.Type = registry[k].Type THEN [ok |-> TRUE, block |-> registry[k]]
    ELSE blockForNode(n, registry, k + 1)

\* what the flag-prefix helper of the root blocks returns
getFlagPrefix == "prefix"

\* the function literal of Apply
ApplyFunc(registry, flagMap, node) ==
    LET b == [Name |-> node.Name, Desc |-> node.Desc, Type |-> getType0(node.Type),
              FlagName |-> "", FlagPrefix |-> <<>>, Fields |-> <<>>, IsRoot |-> FALSE]
        rootBlock == blockForNode(node, registry, 1)
        b1 == IF rootBlock.ok
                THEN [b EXCEPT !.IsRoot = TRUE,
                               !.FlagPrefix = Append(@, getFlagPrefix),
                               !.Desc = rootBlock.block.Desc]
                ELSE b
    IN IF node.Pointer \in DOMAIN flagMap
         THEN [b1 EXCEPT !.FlagName = flagMap[node.Pointer].Name,
                         !.Desc = flagMap[node.Pointer].Usage]
         ELSE b1

RECURSIVE AnalyzeConfigTree(_, _, _)
RECURSIVE AnalyzeChildren(_, _, _, _, _)
\* the loop of AnalyzeConfigTree over the first n children, r what it had before
AnalyzeChildren(t, fn, path, r, n) ==
    IF n = 0 THEN r
    ELSE LET q == AnalyzeChildren(t, fn, path, r, n - 1)
             child == AnalyzeConfigTree(t.Children[n], fn, Append(path, n))
         IN [b |-> [q.b EXCEPT !.Fields = Append(@, child.b)],
             calls |-> q.calls \o child.calls]

AnalyzeConfigTree(t, fn, path) ==
    AnalyzeChildren(t, fn, path,
                    [b |-> ApplyFunc(fn.blocks, fn.flagMap, t), calls |-> <<path>>],
                    Len(t.Children))

Apply(t, registry, flagMap) ==
    AnalyzeConfigTree(t, [blocks |-> registry, flagMap |-> flagMap], <<>>)

(***************************************************************************)
(* The two programs                                                        *)
(***************************************************************************)
NoTree == [nil |-> TRUE]

Init ==
    /\ prog \in {"doctool", "part_000"}
    /\ pc = "start"
    /\ \E nc \in 0..MaxInput : \E nf \in 0..(MaxInput - nc) :
         \E nb \in 0..(MaxInput - nc - nf) :
           /\ nf <= Len(FlagNames)
           /\ cfg \in ConfigTypes(nc)
           /\ fs \in FlagSets(nf, cfg)
           /\ blocks \in Registries(nb, cfg)
    /\ tree = NoTree
    /\ flagByPtr = <<>>
    /\ printed = <<>>
    /\ doc = NoTree
    /\ applied = <<>>

\* reflect.ValueOf(root).Elem()
RootValue == [typ |-> cfg, addr |-> BaseAddr]

\* main.go:159
MainParseTree ==
    /\ prog = "doctool" /\ pc = "start"
    /\ tree' = ParseTree(Tree, RootValue)
    /\ pc' = "parsed"
    /\ UNCHANGED <<prog, cfg, fs, blocks, flagByPtr, printed, doc, applied>>

\* main.go:161-163
MainParseFlags ==
    /\ prog = "doctool" /\ pc = "parsed"
    /\ flagByPtr' = parseFlags(fs)
    /\ pc' = "indexed"
    /\ UNCHANGED <<prog, cfg, fs, blocks, tree, printed, doc, applied>>

\* main.go:165-168
MainWalk ==
    /\ prog = "doctool" /\ pc = "indexed"
    /\ LET r == WalkConfigTree(tree, [lit |-> "main", flagByPtr |-> flagByPtr], <<>>)
       IN /\ tree' = r.node
          /\ applied' = r.calls
    /\ pc' = "annotated"
    /\ UNCHANGED <<prog, cfg, fs, blocks, flagByPtr, printed, doc>>

\* main.go:170
MainPrint ==
    /\ prog = "doctool" /\ pc = "annotated"
    /\ printed' = Append(printed, PrintConfigTree(tree, 0))
    /\ pc' = "printed"
    /\ UNCHANGED <<prog, cfg, fs, blocks, tree, flagByPtr, doc, applied>>

\* main.go:172; a panic ends the program before tree is assigned
MainApplyRootBlocks ==
    /\ prog = "doctool" /\ pc = "printed"
    /\ LET r == ApplyRootBlocks(tree, blocks)
       IN /\ tree' = IF r.ok THEN r.node ELSE tree
          /\ applied' = r.calls
          /\ printed' = printed \o r.out
          /\ pc' = IF r.ok THEN "done" ELSE "panic"
    /\ UNCHANGED <<prog, cfg, fs, blocks, flagByPtr, doc>>

\* part_000:210
Main0ParseTree ==
    /\ prog = "part_000" /\ pc = "start"
    /\ tree' = ParseTree(Tree0(cfg), RootValue)
    /\ pc' = "parsed"
    /\ UNCHANGED <<prog, cfg, fs, blocks, flagByPtr, printed, doc, applied>>

\* part_000:212-214
Main0Print ==
    /\ prog = "part_000" /\ pc = "parsed"
    /\ printed' = Append(printed, PrintConfigTree0(tree, 0))
    /\ pc' = "printed"
    /\ UNCHANGED <<prog, cfg, fs, blocks, tree, flagByPtr, doc, applied>>

\* part_000:216
Main0Apply ==
    /\ prog = "part_000" /\ pc = "printed"
    /\ flagByPtr' = parseFlags(fs)
    /\ LET r == Apply(tree, blocks, parseFlags(fs))
       IN /\ doc' = r.b
          /\ applied' = r.calls
    /\ pc' = "done"
    /\ UNCHANGED <<prog, cfg, fs, blocks, tree, printed>>

Next ==
    \/ MainParseTree
    \/ MainParseFlags
    \/ MainWalk
    \/ MainPrint
    \/ MainApplyRootBlocks
    \/ Main0ParseTree
    \/ Main0Print
    \/ Main0Apply

Spec == Init /\ [][Next]_vars

(***************************************************************************)
(* What the properties speak of                                            *)
(***************************************************************************)
RECURSIVE PathsOf(_)
\* where the nodes of a tree are: the root at <<>>, its n-th child at <<n>>
PathsOf(t) ==
    { <<>> } \cup UNION { { <<n>> \o p : p \in PathsOf(t.Children[n]) } :
                            n \in 1..Len(t.Children) }

RECURSIVE NodeAt(_, _)
NodeAt(t, p) == IF p = <<>> THEN t ELSE NodeAt(t.Children[Head(p)], Tail(p))

RECURSIVE BlockAt(_, _)
BlockAt(b, p) == IF p = <<>> THEN b ELSE BlockAt(b.Fields[Head(p)], Tail(p))

\* a node of a field that is no struct: ParseTree has taken its address
IsLeaf(n) == n.Pointer # 0

IsPrefix(p, q) == Len(p) < Len(q) /\ SubSeq(q, 1, Len(p)) = p

Annotated == prog = "doctool" /\ pc \in {"annotated", "printed", "done", "panic"}
Analyzed == prog = "part_000" /\ pc = "done"

\* flag i is bound to the storage of node n and is not deprecated
Correlates(i, n) ==
    fs[i].Value.ptr = n.Pointer /\ fs[i].Value.str # "deprecated"

\* the registry entries of the declared type of n
Matches(n) == { k \in 1..Len(blocks) : blocks[k].Type = n.Type }

Min(S) == CHOOSE k \in S : \A j \in S : k <= j

(***************************************************************************)
(* C1: flag correlation                                                    *)
(***************************************************************************)
\* C1 as stated: after the flags are attached, a leaf whose address a flag
\* is bound to has that flag, for every flag that is not deprecated, and a
\* leaf no such flag is bound to has none.
FlagCorrelation ==
    /\ Annotated =>
         \A p \in PathsOf(tree) :
           LET n == NodeAt(tree, p)
           IN IsLeaf(n) =>
                /\ \A i \in 1..Len(fs) : Correlates(i, n) => n.Flag = fs[i]
                /\ (~\E i \in 1..Len(fs) : Correlates(i, n)) => n.Flag = NilFlag
    /\ Analyzed =>
         \A p \in PathsOf(tree) :
           LET n == NodeAt(tree, p)
           IN IsLeaf(n) =>
                /\ \A i \in 1..Len(fs) :
                     Correlates(i, n) => BlockAt(doc, p).FlagName = fs[i].Name
                /\ (~\E i \in 1..Len(fs) : Correlates(i, n)) =>
                     BlockAt(doc, p).FlagName = ""

\* the flag of a leaf n: i, the last flag visited that is bound to its address
\* and not deprecated
LastCorrelated(i, n) ==
    Correlates(i, n) /\ \A j \in (i + 1)..Len(fs) : ~Correlates(j, n)

\* C1 amended: of the flags bound to the address of a leaf that are not
\* deprecated, the leaf has the one VisitAll visits last; a leaf no such flag
\* is bound to has none.
FlagCorrelationLast ==
    /\ Annotated =>
         \A p \in PathsOf(tree) :
           LET n == NodeAt(tree, p)
           IN IsLeaf(n) =>
                /\ \A i \in 1..Len(fs) : LastCorrelated(i, n) => n.Flag = fs[i]
                /\ (~\E i \in 1..Len(fs) : Correlates(i, n)) => n.Flag = NilFlag
    /\ Analyzed =>
         \A p \in PathsOf(tree) :
           LET n == NodeAt(tree, p)
           IN IsLeaf(n) =>
                /\ \A i \in 1..Len(fs) :
                     LastCorrelated(i, n) => BlockAt(doc, p).FlagName = fs[i].Name
                /\ (~\E i \in 1..Len(fs) : Correlates(i, n)) =>
                     BlockAt(doc, p).FlagName = ""

\* two flags that are not deprecated are bound to one leaf, and the leaf has
\* the second
FlagCorrelationWitness ==
    /\ Annotated
    /\ \E p \in PathsOf(tree) :
         LET n == NodeAt(tree, p)
         IN /\ IsLeaf(n)
            /\ \E i, j \in 1..Len(fs) :
                 i < j /\ Correlates(i, n) /\ Correlates(j, n) /\ n.Flag = fs[j]

Walked == prog = "doctool" /\ pc \in {"annotated", "printed", "done"}

\* C8 as stated: in WalkConfigTree and in AnalyzeConfigTree the function is
\* applied to a node only after it was applied to each of its descendants.
BottomUp ==
    (Walked \/ Analyzed) =>
      /\ { applied[i] : i \in 1..Len(applied) } = PathsOf(tree)
      /\ \A i, j \in 1..Len(applied) : IsPrefix(applied[i], applied[j]) => j < i

\* C8 amended: WalkConfigTree applies the function to a node after it has
\* applied it to each of the node's descendants; AnalyzeConfigTree applies it
\* to a node before it applies it to any of the node's descendants.  Both
\* apply it to every node once.
WalkBottomUpAnalyzeTopDown ==
    /\ (Walked \/ Analyzed) =>
         /\ Len(applied) = Cardinality(PathsOf(tree))
         /\ { applied[i] : i \in 1..Len(applied) } = PathsOf(tree)
    /\ Walked =>
         \A i, j \in 1..Len(applied) : IsPrefix(applied[i], applied[j]) => j < i
    /\ Analyzed =>
         \A i, j \in 1..Len(applied) : IsPrefix(applied[i], applied[j]) => i < j

\* AnalyzeConfigTree has folded a tree with a leaf in a struct in the root, and
\* the function was applied to the root first
WalkBottomUpWitness ==
    /\ Analyzed
    /\ \E i \in 1..Len(applied) : Len(applied[i]) = 2
    /\ applied[1] = <<>>

(***************************************************************************)
(* C7: the order of the children                                           *)
(***************************************************************************)
\* the fields of a struct type that are documented, in the order of declaration
Documented(t) ==
    SelectSeq(VisibleFields(t), LAMBDA f : parseTag(f.Tag).name \notin {"", "-"})

RECURSIVE DeclaredOrder(_)
\* the names of the documented fields of a struct type in the order of
\* declaration, each with those of its own fields
DeclaredOrder(t) ==
    [i \in 1..Len(Documented(t)) |->
       LET f == Documented(t)[i]
       IN [Name |-> parseTag(f.Tag).name,
           Children |-> IF f.Type.kind = "struct"
                          THEN DeclaredOrder(f.Type) ELSE <<>>]]

RECURSIVE NamesOf(_)
\* the names of a tree of Nodes, in the order of the children
NamesOf(t) ==
    [Name |-> t.Name,
     Children |-> [i \in 1..Len(t.Children) |-> NamesOf(t.Children[i])]]

RECURSIVE NamesOfBlock(_)
NamesOfBlock(b) ==
    [Name |-> b.Name,
     Children |-> [i \in 1..Len(b.Fields) |-> NamesOfBlock(b.Fields[i])]]

\* the addresses of the leaves among the children of a node grow
LeavesAscend(n) ==
    \A i, j \in 1..Len(n.Children) :
      (i < j /\ IsLeaf(n.Children[i]) /\ IsLeaf(n.Children[j]))
        => n.Children[i].Pointer < n.Children[j].Pointer

\* C7: the children of every node ParseTree builds are in the order the
\* fields are declared in, and after WalkConfigTree (with either function)
\* and in the document of AnalyzeConfigTree every node has the same children
\* in the same order.
SiblingOrder ==
    /\ tree # NoTree =>
         /\ NamesOf(tree) = [Name |-> "root", Children |-> DeclaredOrder(cfg)]
         /\ \A p \in PathsOf(tree) : LeavesAscend(NodeAt(tree, p))
    /\ doc # NoTree => NamesOfBlock(doc) = NamesOf(tree)

\* both walks of main.go have run on a tree whose root has two children of
\* different names
SiblingOrderWitness ==
    /\ prog = "doctool" /\ pc = "done"
    /\ Len(tree.Children) >= 2
    /\ tree.Children[1].Name # tree.Children[2].Name

(***************************************************************************)
(* C2: excluded fields                                                     *)
(***************************************************************************)
Excluded(f) == parseTag(f.Tag).name \in {"", "-"}

RECURSIVE Included(_, _)
\* the nodes of the fields of the struct value v that are not excluded and
\* lie in no excluded field: name, type and, of a field that is no struct,
\* address
Included(v, n) ==
    IF n = 0 THEN {}
    ELSE LET f == v.typ.fields[n]
             fv == Field(v, n)
         IN Included(v, n - 1) \cup
            (IF Excluded(f) THEN {}
             ELSE IF f.Type.kind = "struct"
               THEN { [Name |-> parseTag(f.Tag).name, Type |-> f.Type, Pointer |-> 0] }
                      \cup Included(fv, Len(f.Type.fields))
               ELSE { [Name |-> parseTag(f.Tag).name, Type |-> f.Type,
                       Pointer |-> fv.addr] })

\* C2: no node of the tree comes from a field whose tag has the name "" or
\* "-", nor from a field in such a field, embedded or not.
Exclusion ==
    tree # NoTree =>
      \A p \in PathsOf(tree) \ { <<>> } :
        LET n == NodeAt(tree, p)
        IN [Name |-> n.Name, Type |-> n.Type, Pointer |-> n.Pointer]
             \in Included(RootValue, Len(cfg.fields))

(***************************************************************************)
(* C3, C4: root blocks                                                     *)
(***************************************************************************)
\* C3: after ApplyRootBlocks a node is marked as a root block if and only if
\* its declared type is the match type of a registry entry, and so is its
\* ConfigBlock after Apply.
RootBlockExact ==
    /\ (prog = "doctool" /\ pc = "done") =>
         \A p \in PathsOf(tree) :
           NodeAt(tree, p).IsRoot <=> Matches(NodeAt(tree, p)) # {}
    /\ Analyzed =>
         \A p \in PathsOf(tree) :
           BlockAt(doc, p).IsRoot <=> Matches(NodeAt(tree, p)) # {}

\* C4: a node whose declared type is the match type of registry entries has
\* the description of the first of them.
FirstMatch ==
    /\ (prog = "doctool" /\ pc = "done") =>
         \A p \in PathsOf(tree) :
           LET n == NodeAt(tree, p)
           IN Matches(n) # {} => n.Desc = blocks[Min(Matches(n))].Desc
    /\ Analyzed =>
         \A p \in PathsOf(tree) :
           LET n == NodeAt(tree, p)
           IN Matches(n) # {} => BlockAt(doc, p).Desc = blocks[Min(Matches(n))].Desc

(***************************************************************************)
(* C5, C9: the text of a node                                              *)
(***************************************************************************)
\* name: <type-label>, and -<flagName>=<defaultValueText> if a flag is bound
LeafLine(n, label) ==
    n.Name \o ": " \o label
      \o (IF n.Flag = NilFlag THEN ""
          ELSE " -" \o n.Flag.Name \o "=" \o n.Flag.DefValue)

\* C5: PrintConfigTree gives for a leaf without a flag name: <type-label>, for
\* a leaf with a flag name: <type-label> -<flagName>=<defaultValueText>, and
\* nothing else.
LeafText ==
    tree # NoTree =>
      \A p \in PathsOf(tree) :
        LET n == NodeAt(tree, p)
        IN IsLeaf(n) =>
             /\ prog = "doctool" => PrintConfigTree(n, Len(p)) = LeafLine(n, getType(n.Type))
             /\ prog = "part_000" => PrintConfigTree0(n, Len(p)) = LeafLine(n, getType0(n.Type))

\* C9: a struct field none of whose fields is documented is a node without
\* children, and PrintConfigTree gives it in braces, without : <type-label>.
EmptyStructIsBranch ==
    tree # NoTree =>
      \A p \in PathsOf(tree) \ { <<>> } :
        LET n == NodeAt(tree, p)
        IN (n.Type.kind = "struct" /\ Documented(n.Type) = <<>>) =>
             /\ n.Children = <<>>
             /\ prog = "doctool" =>
                  PrintConfigTree(n, Len(p))
                    = n.Name \o " (" \o FormatBool(n.IsRoot) \o ")" \o " {\n"
                        \o indent(Len(p)) \o "}"
             /\ prog = "part_000" =>
                  PrintConfigTree0(n, Len(p)) = n.Name \o " {\n" \o indent(Len(p)) \o "}"

(***************************************************************************)
(* C10: the description of a node with a flag                              *)
(***************************************************************************)
\* the description a node has when its flag is attached: its own, or that of
\* the first registry entry of its type
DescBefore(n) ==
    IF Matches(n) # {} THEN blocks[Min(Matches(n))].Desc ELSE n.Desc

\* C10: a node whose address is in the flag index gets the usage text of the
\* flag as its description if it had none, and keeps the description it had
\* otherwise.
DescOnlyWhenEmpty ==
    /\ Annotated =>
         \A p \in PathsOf(tree) :
           LET n == NodeAt(tree, p)
           IN (n.Pointer \in DOMAIN flagByPtr /\ pc \in {"annotated", "printed"}) =>
                n.Desc = flagByPtr[n.Pointer].Usage
    /\ Analyzed =>
         \A p \in PathsOf(tree) :
           LET n == NodeAt(tree, p)
           IN n.Pointer \in DOMAIN flagByPtr =>
                BlockAt(doc, p).Desc =
                  IF DescBefore(n) = "" THEN flagByPtr[n.Pointer].Usage
                  ELSE DescBefore(n)

====
